---- MODULE Spec2Model ----
(***************************************************************************)
(* media-variant: the ScreenSizeProvider React component, in its two       *)
(* variants:                                                               *)
(*   "current"  src/src/react/MediaContext.tsx                             *)
(*   "legacy"   src/src/types.ts (from line 4 on)                          *)
(* The provider keeps five media-query watches (useMediaQuery), resolves   *)
(* the largest matching label on every render and publishes it through a   *)
(* React context.                                                          *)
(***************************************************************************)
EXTENDS Integers, FiniteSets, TLC

VARIABLES
    variant,           \* which of the two implementations is running
    mounted,           \* whether a ScreenSizeProvider is mounted
    userDefinedSizes,  \* the provider's `sizes` prop (a partial table)
    width,             \* the viewport width
    prevRange,         \* the range the width was in before the last resize
    sizes,             \* the `sizes` const of the provider's last render
    matches,           \* the state of the five useMediaQuery hooks
    value,             \* the value of <ScreenSizeContext.Provider>
    publishes,         \* provider renders (each a publish) since the last event
    lastEvent,         \* what the provider last reacted to
    seen               \* the useScreenSize() call of this step and its result

vars == <<variant, mounted, userDefinedSizes, width, prevRange, sizes,
          matches, value, publishes, lastEvent, seen>>

----------------------------------------------------------------------------
(* Bounds of the model *)

\* widths within this distance of every threshold are tried
WidthSlack == 1
\* override values tried: 0 and 900, 1000, ... (MaxOverrideSteps + 1 of them)
MaxOverrideSteps == 1

----------------------------------------------------------------------------
(* Types and constants of the program *)

\* type ScreenSize
ScreenSize == {"xxl", "xl", "lg", "md", "sm"}

Variants == {"current", "legacy"}

\* const defaultSizes (current variant)
defaultSizes == [xxl |-> 1536, xl |-> 1280, lg |-> 1024, md |-> 768, sm |-> 640]

\* the literals of the legacy variant's table, which has no sm
legacySizes == [xxl |-> 1536, xl |-> 1280, lg |-> 1024, md |-> 768]

Defaults(v) == IF v = "current" THEN defaultSizes ELSE legacySizes

\* const MAX_SAFE_INTEGER of the legacy variant
MAX_SAFE_INTEGER == 99999

\* Number.MAX_SAFE_INTEGER of the current variant is 2^53 - 1; the model
\* checker's integers are 32 bits wide, so the model takes the largest of
\* them. Only comparisons with widths are made with it.
NumberMaxSafeInteger == 2147483647

Sentinel(v) == IF v = "current" THEN NumberMaxSafeInteger ELSE MAX_SAFE_INTEGER

\* createContext's default value
ScreenSizeContext(v) ==
    IF v = "current"
    THEN [screenSize |-> "sm", breakpoints |-> defaultSizes]
    ELSE [screenSize |-> "sm"]

----------------------------------------------------------------------------
(* The pure parts of a render *)

\* as OrDefault, had the code tested presence (??) and not truthiness (||)
OrDefaultNullish(u, k, d) == IF k \in DOMAIN u THEN u[k] ELSE d

\* userDefinedSizes?.k || d : d when the prop or the key is missing or the
\* number is falsy
OrDefault(u, k, d) == IF k \in DOMAIN u /\ u[k] # 0 THEN u[k] ELSE d

\* const sizes = { xxl: userDefinedSizes?.xxl || ..., ... }
Sizes(v, u) == [k \in DOMAIN Defaults(v) |-> OrDefault(u, k, Defaults(v)[k])]

\* as Queries, had the xl watch ended at the xxl threshold itself
QueriesOverlap(v, s) ==
    [xxl |-> [minWidth |-> s.xxl, maxWidth |-> Sentinel(v)],
     xl  |-> [minWidth |-> s.xl,  maxWidth |-> s.xxl],
     lg  |-> [minWidth |-> s.lg,  maxWidth |-> s.xl - 1],
     md  |-> [minWidth |-> s.md,  maxWidth |-> s.lg - 1],
     sm  |-> [maxWidth |-> s.md - 1]]

\* as Queries, had the md watch started one pixel above its threshold
QueriesOffByOne(v, s) ==
    [xxl |-> [minWidth |-> s.xxl, maxWidth |-> Sentinel(v)],
     xl  |-> [minWidth |-> s.xl,  maxWidth |-> s.xxl - 1],
     lg  |-> [minWidth |-> s.lg,  maxWidth |-> s.xl - 1],
     md  |-> [minWidth |-> s.md + 1, maxWidth |-> s.lg - 1],
     sm  |-> [maxWidth |-> s.md - 1]]

\* as Queries, had the sm watch started at the sm threshold where there is one
QueriesSmFromSm(v, s) ==
    [xxl |-> [minWidth |-> s.xxl, maxWidth |-> Sentinel(v)],
     xl  |-> [minWidth |-> s.xl,  maxWidth |-> s.xxl - 1],
     lg  |-> [minWidth |-> s.lg,  maxWidth |-> s.xl - 1],
     md  |-> [minWidth |-> s.md,  maxWidth |-> s.lg - 1],
     sm  |-> IF "sm" \in DOMAIN s
             THEN [minWidth |-> s.sm, maxWidth |-> s.md - 1]
             ELSE [maxWidth |-> s.md - 1]]

\* as Queries, had the sm watch ended below the sm threshold where there is one
QueriesSmUpToSm(v, s) ==
    [xxl |-> [minWidth |-> s.xxl, maxWidth |-> Sentinel(v)],
     xl  |-> [minWidth |-> s.xl,  maxWidth |-> s.xxl - 1],
     lg  |-> [minWidth |-> s.lg,  maxWidth |-> s.xl - 1],
     md  |-> [minWidth |-> s.md,  maxWidth |-> s.lg - 1],
     sm  |-> [maxWidth |-> (IF "sm" \in DOMAIN s THEN s.sm ELSE s.md) - 1]]

\* the settings handed to the five useMediaQuery calls
Queries(v, s) ==
    [xxl |-> [minWidth |-> s.xxl, maxWidth |-> Sentinel(v)],
     xl  |-> [minWidth |-> s.xl,  maxWidth |-> s.xxl - 1],
     lg  |-> [minWidth |-> s.lg,  maxWidth |-> s.xl - 1],
     md  |-> [minWidth |-> s.md,  maxWidth |-> s.lg - 1],
     sm  |-> [maxWidth |-> s.md - 1]]

\* whether a viewport of width w satisfies the media query of settings q
MediaMatches(q, w) ==
    /\ w <= q.maxWidth
    /\ ("minWidth" \in DOMAIN q => w >= q.minWidth)

\* the truth of the five queries at width w
Truth(v, s, w) == [k \in ScreenSize |-> MediaMatches(Queries(v, s)[k], w)]

\* as findLargestScreenSizeMatch, had the cascade tested md before xl and lg
findSmallestFirst(m) ==
    IF m.xxl THEN "xxl"
    ELSE IF m.md THEN "md"
    ELSE IF m.lg THEN "lg"
    ELSE IF m.xl THEN "xl"
    ELSE "sm"

\* as findLargestScreenSizeMatch, had the lg branch returned md
findLargestLgAsMd(m) ==
    IF m.xxl THEN "xxl"
    ELSE IF m.xl THEN "xl"
    ELSE IF m.lg THEN "md"
    ELSE IF m.md THEN "md"
    ELSE "sm"

findLargestScreenSizeMatch(m) ==
    IF m.xxl THEN "xxl"
    ELSE IF m.xl THEN "xl"
    ELSE IF m.lg THEN "lg"
    ELSE IF m.md THEN "md"
    ELSE "sm"

\* value={{ screenSize, breakpoints: sizes }} (current), {{ screenSize }} (legacy)
ProviderValue(v, s, m) ==
    IF v = "current"
    THEN [screenSize |-> findLargestScreenSizeMatch(m), breakpoints |-> s]
    ELSE [screenSize |-> findLargestScreenSizeMatch(m)]

----------------------------------------------------------------------------
(* The inputs tried *)

OverrideValues == {0} \cup {900 + 100 * i : i \in 0..MaxOverrideSteps}

NoSizes == [k \in {} |-> 0]

\* the `sizes` props tried by the provider's life cycle: none, or one name
Props == {NoSizes} \cup
         UNION {{[k \in {n} |-> x] : x \in OverrideValues} : n \in ScreenSize}

\* every partial table over the five names
AllProps == UNION {[K -> OverrideValues] : K \in SUBSET ScreenSize}

Near(t) == (t - WidthSlack)..(t + WidthSlack - 1)

\* the widths tried for a provider given the prop u: the widths of the
\* documented scenarios, both sides of each threshold, and around the sentinel
Widths(v, u) ==
    {0, 500, 800, 850, 1920}
    \cup UNION {Near(Sizes(v, u)[k]) : k \in DOMAIN Sizes(v, u)}
    \cup (IF v = "legacy" THEN Near(MAX_SAFE_INTEGER + 1) ELSE {NumberMaxSafeInteger})

\* the range of the table s that holds width w: the label whose threshold is
\* the largest one not above w, "none" outside 0..sentinel
RangeOf(v, s, w) ==
    IF w < 0 \/ w > Sentinel(v) THEN "none"
    ELSE IF w >= s.xxl THEN "xxl"
    ELSE IF w >= s.xl THEN "xl"
    ELSE IF w >= s.lg THEN "lg"
    ELSE IF w >= s.md THEN "md"
    ELSE "sm"

Consumers == {"inside", "outside"}

NotCalled == [consumer |-> "none", screenSize |-> "sm"]

----------------------------------------------------------------------------
(* The provider's life cycle *)

Init ==
    /\ variant \in Variants
    /\ mounted = FALSE
    /\ userDefinedSizes \in Props
    /\ width \in Widths(variant, userDefinedSizes)
    /\ prevRange = "none"
    /\ sizes = NoSizes
    /\ matches = [k \in ScreenSize |-> FALSE]
    /\ value = ScreenSizeContext(variant)
    /\ publishes = 0
    /\ lastEvent = "none"
    /\ seen = NotCalled

\* a watch whose hook state differs from its query's truth has a change
\* notification to deliver
Pending(k) == mounted /\ matches[k] # Truth(variant, sizes, width)[k]

Settled == mounted => matches = Truth(variant, sizes, width)

\* first render: every useMediaQuery starts from its query's current truth
Mount ==
    /\ ~mounted
    /\ mounted' = TRUE
    /\ sizes' = Sizes(variant, userDefinedSizes)
    /\ matches' = Truth(variant, sizes', width)
    /\ value' = ProviderValue(variant, sizes', matches')
    /\ publishes' = 1
    /\ lastEvent' = "mount"
    /\ seen' = NotCalled
    /\ UNCHANGED <<variant, userDefinedSizes, width, prevRange>>

Unmount ==
    /\ mounted
    /\ mounted' = FALSE
    /\ sizes' = NoSizes
    /\ matches' = [k \in ScreenSize |-> FALSE]
    /\ value' = ScreenSizeContext(variant)
    /\ publishes' = 0
    /\ lastEvent' = "none"
    /\ prevRange' = "none"
    /\ seen' = NotCalled
    /\ UNCHANGED <<variant, userDefinedSizes, width>>

\* the window is resized (or a resize event leaves the width as it is); the
\* change notifications of one evaluation are delivered before the next
Resize ==
    /\ Settled
    /\ \E w \in Widths(variant, userDefinedSizes) : width' = w
    /\ prevRange' = IF mounted THEN RangeOf(variant, sizes, width) ELSE "none"
    /\ publishes' = 0
    /\ lastEvent' = IF mounted THEN "resize" ELSE "none"
    /\ seen' = NotCalled
    /\ UNCHANGED <<variant, mounted, userDefinedSizes, sizes, matches, value>>

\* one watch's change notification: the hook's state is set, the provider
\* renders again and publishes a new context value
Notify(k) ==
    /\ Pending(k)
    /\ matches' = [matches EXCEPT ![k] = ~matches[k]]
    /\ sizes' = Sizes(variant, userDefinedSizes)
    /\ value' = ProviderValue(variant, sizes', matches')
    /\ publishes' = publishes + 1
    /\ seen' = NotCalled
    /\ UNCHANGED <<variant, mounted, userDefinedSizes, width, prevRange, lastEvent>>

\* as SetProps, had the table been kept from the first render
SetPropsCaptured(u) ==
    /\ mounted
    /\ Settled
    /\ u # userDefinedSizes
    /\ userDefinedSizes' = u
    /\ sizes' = sizes
    /\ value' = ProviderValue(variant, sizes, matches)
    /\ publishes' = 1
    /\ lastEvent' = "props"
    /\ seen' = NotCalled
    /\ UNCHANGED <<variant, mounted, width, prevRange, matches>>

\* the parent renders the provider with another `sizes` prop: the table is
\* computed again, the hooks still hold the state of the old queries
SetProps(u) ==
    /\ mounted
    /\ Settled
    /\ u # userDefinedSizes
    /\ userDefinedSizes' = u
    /\ sizes' = Sizes(variant, u)
    /\ value' = ProviderValue(variant, sizes', matches)
    /\ publishes' = 1
    /\ lastEvent' = "props"
    /\ seen' = NotCalled
    /\ UNCHANGED <<variant, mounted, width, prevRange, matches>>

\* as useContext, had the provider's value been a module-level global
useContextGlobal(c) == IF mounted THEN value ELSE ScreenSizeContext(variant)

\* useContext(ScreenSizeContext): the nearest provider's value, the context's
\* default value with no provider above the caller
useContext(c) ==
    IF mounted /\ c = "inside" THEN value ELSE ScreenSizeContext(variant)

useScreenSize(c) == useContext(c).screenSize

\* a component calls useScreenSize(); one inside the provider exists only
\* while the provider is mounted
CallUseScreenSize(c) ==
    /\ c = "inside" => mounted
    /\ seen' = [consumer |-> c, screenSize |-> useScreenSize(c)]
    /\ UNCHANGED <<variant, mounted, userDefinedSizes, width, prevRange, sizes,
                   matches, value, publishes, lastEvent>>

\* mounting, unmounting, viewport events and their notifications
Lifecycle ==
    \/ Mount
    \/ Unmount
    \/ Resize
    \/ \E k \in ScreenSize : Notify(k)

\* a provider whose prop stays as mounted, and the components reading it
Next ==
    \/ Lifecycle
    \/ \E c \in Consumers : CallUseScreenSize(c)

Spec == Init /\ [][Next]_vars

\* a provider whose parent may hand it another `sizes` prop
NextProps ==
    \/ Lifecycle
    \/ \E u \in Props : SetProps(u)

SpecProps == Init /\ [][NextProps]_vars

----------------------------------------------------------------------------
(* The resolver and the breakpoint table on their own *)

\* any five match flags handed to a provider's render
InitResolve ==
    /\ variant \in Variants
    /\ mounted = TRUE
    /\ userDefinedSizes = NoSizes
    /\ width = 0
    /\ prevRange = "none"
    /\ sizes = Sizes(variant, NoSizes)
    /\ matches \in [ScreenSize -> BOOLEAN]
    /\ value = ScreenSizeContext(variant)
    /\ publishes = 0
    /\ lastEvent = "none"
    /\ seen = NotCalled

\* const screenSize = findLargestScreenSizeMatch({ xxl, xl, lg, md, sm }) and
\* the value built from it
Resolve ==
    /\ lastEvent = "none"
    /\ value' = ProviderValue(variant, sizes, matches)
    /\ publishes' = 1
    /\ lastEvent' = "resolve"
    /\ UNCHANGED <<variant, mounted, userDefinedSizes, width, prevRange, sizes,
                   matches, seen>>

SpecResolve == InitResolve /\ [][Resolve]_vars

\* a provider about to mount with any partial table as its prop
InitTable ==
    /\ variant \in Variants
    /\ mounted = FALSE
    /\ userDefinedSizes \in AllProps
    /\ width \in {0, 1920}
    /\ prevRange = "none"
    /\ sizes = NoSizes
    /\ matches = [k \in ScreenSize |-> FALSE]
    /\ value = ScreenSizeContext(variant)
    /\ publishes = 0
    /\ lastEvent = "none"
    /\ seen = NotCalled

SpecTable == InitTable /\ [][Mount]_vars

----------------------------------------------------------------------------
(* Vocabulary of the claims *)

\* the thresholds are in rank order
Ordered(s) == s.md < s.lg /\ s.lg < s.xl /\ s.xl < s.xxl

Rank(l) == CASE l = "sm" -> 0 [] l = "md" -> 1 [] l = "lg" -> 2
             [] l = "xl" -> 3 [] l = "xxl" -> 4

Distance(a, b) == IF Rank(a) >= Rank(b) THEN Rank(a) - Rank(b) ELSE Rank(b) - Rank(a)

\* the highest-ranked label whose flag is set, sm when none is
HighestSet(m) ==
    IF \E k \in ScreenSize : m[k]
    THEN CHOOSE k \in ScreenSize :
             m[k] /\ \A j \in ScreenSize : m[j] => Rank(j) <= Rank(k)
    ELSE "sm"

BuiltIn(k) == CASE k = "xxl" -> 1536 [] k = "xl" -> 1280 [] k = "lg" -> 1024
                [] k = "md" -> 768 [] k = "sm" -> 640

NamesOf(v) == IF v = "current" THEN ScreenSize ELSE ScreenSize \ {"sm"}

\* the table the prop u asks for, name by name
TableFollows(v, s, u) ==
    /\ DOMAIN s = NamesOf(v)
    /\ \A k \in NamesOf(v) :
           /\ (k \in DOMAIN u /\ u[k] # 0) => s[k] = u[k]
           /\ (k \notin DOMAIN u \/ u[k] = 0) => s[k] = BuiltIn(k)

InRange == RangeOf(variant, sizes, width) # "none"

AfterResize == mounted /\ lastEvent = "resize" /\ Ordered(sizes)
               /\ prevRange # "none" /\ InRange

----------------------------------------------------------------------------
(* The claims *)

\* C1: for each of the 32 combinations of the five match flags, the resolver
\* returns the highest-ranked label whose flag is true, and sm when none is.
C1_HighestFlagWins ==
    lastEvent = "resolve" => value.screenSize = HighestSet(matches)

C1_Witness ==
    /\ lastEvent = "resolve"
    /\ matches.xl /\ matches.md /\ matches.sm /\ ~matches.xxl
    /\ value.screenSize = "xl"

\* C2: the effective table holds, for each name of the variant, the caller's
\* override when it is present and not 0, and the built-in default otherwise;
\* the names not overridden keep their defaults; the current variant
\* publishes that table.
C2_TableFromOverrides ==
    mounted =>
        /\ TableFollows(variant, sizes, userDefinedSizes)
        /\ variant = "current" => value.breakpoints = sizes

C2_Witness ==
    /\ mounted
    /\ DOMAIN userDefinedSizes = {"xl", "md"}
    /\ userDefinedSizes.xl = 1000 /\ userDefinedSizes.md = 0
    /\ sizes.xxl = 1536 /\ sizes.xl = 1000 /\ sizes.lg = 1024 /\ sizes.md = 768

\* C3: with ordered thresholds and a width within 0..sentinel, once no watch
\* notification is pending the published ScreenSize is the label of the range
\* that holds the current width.
C3_SettledIsRange ==
    (mounted /\ Ordered(sizes) /\ Settled /\ InRange)
        => value.screenSize = RangeOf(variant, sizes, width)

\* defaults, 1920 -> 500: xxl before, sm after
C3_Witness ==
    /\ AfterResize /\ Settled
    /\ userDefinedSizes = NoSizes
    /\ prevRange = "xxl" /\ width = 500
    /\ publishes > 0
    /\ value.screenSize = "sm"

\* C4: useScreenSize called with no provider above the caller returns sm,
\* whatever the width and whatever a provider elsewhere has published.
C4_OutsideIsSm ==
    seen.consumer = "outside" => seen.screenSize = "sm"

C4_Witness ==
    /\ seen.consumer = "outside"
    /\ seen.screenSize = "sm"
    /\ mounted /\ width = 1920
    /\ value.screenSize = "xxl"

\* C5 as stated: while mounted, the number of publishes goes up only when
\* the resolved ScreenSize changes.
C5_PublishOnlyOnChange ==
    [][(mounted /\ publishes' > publishes)
          => value'.screenSize # value.screenSize]_vars

\* C5 as amended: while mounted, a viewport event that leaves the width where
\* it was, or in the same range, is followed by no publish; every later
\* publish is one watch changing its truth value, and may repeat the
\* ScreenSize already published.
C5_PublishOnlyOnWatchChange ==
    /\ []((AfterResize /\ prevRange = RangeOf(variant, sizes, width))
              => publishes = 0)
    /\ [][(mounted /\ publishes' > publishes)
              => /\ publishes' = publishes + 1
                 /\ Cardinality({k \in ScreenSize : matches'[k] # matches[k]}) = 1]_vars

\* xxl -> sm: the second publish repeats sm
C5_Witness ==
    /\ AfterResize /\ Settled
    /\ prevRange = "xxl" /\ RangeOf(variant, sizes, width) = "sm"
    /\ publishes = 2

\* C6 as stated: once a width change has settled, the provider has recomputed
\* once per boundary crossed.
C6_OnePerBoundary ==
    (AfterResize /\ Settled)
        => publishes = Distance(prevRange, RangeOf(variant, sizes, width))

\* C6 as amended: a width change from one range to another makes the provider
\* recompute and publish once per watch whose truth value changed, which is
\* twice (the watch of the range left, the watch of the range entered)
\* however many boundaries lie between them, and never when the range stays;
\* each recomputation is one step.
C6_OnePerWatch ==
    AfterResize =>
        /\ publishes + Cardinality({k \in ScreenSize : Pending(k)})
               = (IF prevRange = RangeOf(variant, sizes, width) THEN 0 ELSE 2)
        /\ Settled =>
               publishes = (IF prevRange = RangeOf(variant, sizes, width) THEN 0 ELSE 2)

\* xl -> lg: one boundary, two recomputations
C6_Witness ==
    /\ AfterResize /\ Settled
    /\ prevRange = "xl" /\ RangeOf(variant, sizes, width) = "lg"
    /\ publishes = 2

\* C7: with ordered thresholds each watch ends one below the threshold where
\* the next larger one starts, the xxl watch ends at the sentinel, and every
\* width within 0..sentinel satisfies exactly one of the five watches.
C7_RangesPartition ==
    (mounted /\ Ordered(sizes)) =>
        LET q == Queries(variant, sizes) IN
        /\ q.xxl.maxWidth = Sentinel(variant)
        /\ q.xl.maxWidth = q.xxl.minWidth - 1
        /\ q.lg.maxWidth = q.xl.minWidth - 1
        /\ q.md.maxWidth = q.lg.minWidth - 1
        /\ q.sm.maxWidth = q.md.minWidth - 1
        /\ \A w \in Widths(variant, userDefinedSizes) :
               RangeOf(variant, sizes, w) # "none" =>
                   Cardinality({k \in ScreenSize : MediaMatches(q[k], w)}) = 1
        /\ (Settled /\ InRange) =>
               Cardinality({k \in ScreenSize : matches[k]}) = 1

C7_Witness ==
    /\ mounted /\ Ordered(sizes) /\ Settled
    /\ lastEvent = "resize"
    /\ sizes.md = 900 /\ width = 899
    /\ matches.sm /\ ~matches.md

\* C8 as stated: in the current variant the sm watch is over
\* [sm threshold, md - 1], so its flag is true exactly for those widths.
C8_SmFromSmThreshold ==
    (mounted /\ Settled /\ variant = "current")
        => (matches.sm <=> (sizes.sm <= width /\ width <= sizes.md - 1))

\* C8 as amended: in both variants the sm watch has an upper bound only,
\* md - 1; its flag is true exactly for the widths up to md - 1, those below
\* the sm threshold included.
C8_SmUpToMd ==
    mounted =>
        /\ DOMAIN Queries(variant, sizes).sm = {"maxWidth"}
        /\ Queries(variant, sizes).sm.maxWidth = sizes.md - 1
        /\ Settled => (matches.sm <=> width <= sizes.md - 1)

C8_Witness ==
    /\ mounted /\ Settled /\ variant = "current"
    /\ lastEvent = "resize"
    /\ width < sizes.sm
    /\ matches.sm

\* C9 as stated: while the provider stays mounted its table stays the one of
\* the first render.
C9_TableFixedAtMount ==
    [][(mounted /\ mounted') => sizes' = sizes]_vars

\* C9 as amended: the table is computed from the current prop on every
\* render: it follows a change of the prop, and a recomputation with the prop
\* unchanged leaves it (and the published breakpoints) as it was.
C9_TableFollowsProp ==
    /\ [](mounted =>
            /\ TableFollows(variant, sizes, userDefinedSizes)
            /\ variant = "current" => value.breakpoints = sizes)
    /\ [][(mounted /\ mounted' /\ userDefinedSizes' = userDefinedSizes)
              => sizes' = sizes]_vars

\* the prop became {md: 900} after mount and a watch has been notified since
C9_Witness ==
    /\ mounted /\ lastEvent = "props" /\ publishes >= 2
    /\ DOMAIN userDefinedSizes = {"md"} /\ userDefinedSizes.md = 900
    /\ sizes.md = 900

\* C10: with ordered thresholds, in every state after a width change, the
\* states between its notifications included, the published ScreenSize is the
\* label of the range of the previous width or of the current width.
C10_NoForeignLabel ==
    AfterResize => value.screenSize \in {prevRange, RangeOf(variant, sizes, width)}

====
